---- MODULE Spec2Model ----
(***************************************************************************)
(* pyECG_graph: generate_ecg_graph (src/pyECG_graph/pyECG.py).             *)
(*                                                                         *)
(* One caller holds one list, ecg_data, and calls generate_ecg_graph on it *)
(* repeatedly, always with the same output directory.  A call is modelled  *)
(* in steps: the entry (export check, 125-record prepend, strip padding,   *)
(* partition), one step per page of the plotting loop, and the composing   *)
(* tail (template files, phantomjs, removal of temporary files).           *)
(*                                                                         *)
(* A sample is an amplitude (a positive integer here) or None.  numpy      *)
(* turns None into nan in a float array; both are the missing marker and   *)
(* are modelled by None.  record_frequency is a whole number of Hz, so     *)
(* one_strip_length is a whole number of samples.                          *)
(***************************************************************************)
EXTENDS Integers, Sequences, FiniteSets, TLC

\* Bounds of the model.
MaxLen == 5
MaxRecord == 180

\* Constants of the program.
one_strip_time == 8
strips_per_page == 4
legend_records == 125
None == -1
Zero == 0

Frequencies == {1, 3, 6}
Exports == {"pdf", "jpg", "png", "svg"}
\* The formats the error message of line 142 lists, 'svg' among them.
SupportedExportsWithSvg == {"pdf", "svg", "jpg", "png"}
\* The formats line 141 accepts.
SupportedExports == {"pdf", "jpg", "png"}

VARIABLES ecg_data, pc, export_to, record_frequency, signals_num, no_of_strips,
          extra_strips_needed, record_list, seq, plotted, file_name,
          files, written, result, calls

vars == <<ecg_data, pc, export_to, record_frequency, signals_num, no_of_strips,
          extra_strips_needed, record_list, seq, plotted, file_name,
          files, written, result, calls>>

locals == <<export_to, record_frequency, signals_num, no_of_strips,
            extra_strips_needed, record_list, seq, plotted, file_name>>

----------------------------------------------------------------------------
\* Helpers: Python lists, slices and arithmetic.

Min(a, b) == IF a < b THEN a ELSE b
Max(a, b) == IF a > b THEN a ELSE b

\* [None] * n
NoneSeq(n) == [i \in 1..n |-> None]

\* numpy.zeros(n)
Zeros(n) == [i \in 1..n |-> Zero]

\* l[a:b] for 0 <= a, 0 <= b
PySlice(l, a, b) == SubSeq(l, Min(a, Len(l)) + 1, Min(b, Len(l)))

\* vector[a:b] = None for 0 <= a, 0 <= b
SetNone(vector, a, b) ==
    [i \in 1..Len(vector) |-> IF a < i /\ i <= b THEN None ELSE vector[i]]

\* math.ceil(float(a) / float(b)) for a >= 0, b > 0
Ceil(a, b) == (a + b - 1) \div b

\* int(round(a / b)) for b > 0: Python 2 rounds halves away from zero.
Round(a, b) ==
    IF a >= 0 THEN (2 * a + b) \div (2 * b) ELSE -((2 * (-a) + b) \div (2 * b))

----------------------------------------------------------------------------
\* The nested functions of generate_ecg_graph.

\* chunks with every slice one sample short: l[i:i+n-1]
ChunksShort(l, n) ==
    [k \in 1..Ceil(Len(l), n) |-> PySlice(l, (k - 1) * n, (k - 1) * n + n - 1)]
\* chunks(l, n): l[i:i+n] for i in xrange(0, len(l), n)
chunks(l, n) ==
    [k \in 1..Ceil(Len(l), n) |-> PySlice(l, (k - 1) * n, (k - 1) * n + n)]

\* padwithnone(vector, pad_width, iaxis, kwargs)
padwithnone(vector, pad_width) ==
    IF pad_width # <<0, 0>>
    THEN LET v1 == SetNone(vector, 0, pad_width[1])
             from == IF pad_width[2] = 0 THEN 0
                     ELSE Max(Len(v1) - pad_width[2], 0)
         IN  SetNone(v1, from, Len(v1))
    ELSE vector

\* prepadwithnone(vector, pad_width, iaxis, kwargs): its effect on vector;
\* numpy.pad keeps the array it passed in and drops the returned slice.
prepadwithnone(vector, pad_width) ==
    IF pad_width # <<0, 0>>
    THEN SetNone(vector, pad_width[1], pad_width[2])
    ELSE vector

\* numpy.pad(array, pad_width, function): the padded array that numpy.pad
\* hands to function, whose changes to it are the result.
NumpyPad(array, pad_width) ==
    Zeros(pad_width[1]) \o array \o Zeros(pad_width[2])

\* partition(lst, n)
partition(lst, n) ==
    [i \in 1..n |-> PySlice(lst, Round(Len(lst) * (i - 1), n),
                                 Round(Len(lst) * i, n))]

----------------------------------------------------------------------------
\* The arithmetic of the body of generate_ecg_graph.

one_strip_length(f) == one_strip_time * f

NoOfStrips(n, f) == Ceil(n, one_strip_length(f))

\* extra_strips_needed without the test of line 176
ExtraStripsAlways(no) == strips_per_page - (no % strips_per_page)
\* extra_strips_needed, lines 174-177
ExtraStripsNeeded(no) ==
    IF no % strips_per_page # 0
    THEN strips_per_page - (no % strips_per_page)
    ELSE 0

\* record_time without round(): int((signals_num - 125) / record_frequency)
RecordTimeTruncated(n, f) == (n - legend_records) \div f
\* int(round((signals_num - 125) / record_frequency))
RecordTime(n, f) == Round(n - legend_records, f)

\* The data handed to ax.plot for strip num (from 0) of a page.
PlotData(num, plot, f) ==
    IF num = 0
    THEN LET pad_width == <<0, legend_records>>
             data == prepadwithnone(NumpyPad(plot, pad_width), pad_width)
         IN  PySlice(data, 0, Len(data) - legend_records)
    ELSE LET pad_width == <<0, one_strip_length(f) - Len(plot)>>
         IN  padwithnone(NumpyPad(plot, pad_width), pad_width)

\* The strips of one page as the plotting loop sees them.
PlotPageStrips(rec, f) ==
    LET plot_record_list == chunks(rec, one_strip_length(f))
    IN  [k \in 1..Len(plot_record_list) |->
            [plot |-> plot_record_list[k],
             data |-> PlotData(k - 1, plot_record_list[k], f)]]

\* Files of the output directory.
PageSvg(n) == <<"svg", n>>
GraphPageSvg == <<"graph_page.svg", 0>>
TempJs == <<"temp2.js", 0>>
OutputFile(e) == <<e, 0>>
NoFile == <<"", 0>>

NoResult(how) ==
    [returned |-> how, record_frequency |-> 0, signals_num |-> 0,
     record_time |-> 0, no_of_signals |-> 0, duration |-> 0, output_files |-> {}]

meta_data ==
    [returned |-> "meta_data",
     record_frequency |-> record_frequency,
     signals_num |-> signals_num,
     record_time |-> RecordTime(signals_num, record_frequency),
     no_of_signals |-> signals_num,
     duration |-> RecordTime(signals_num, record_frequency),
     output_files |-> 1..seq]

----------------------------------------------------------------------------
\* The traces the caller starts with: 1, 2, ..., n with at most one sample
\* missing.
Trace(n, m) == [i \in 1..n |-> IF i = m THEN None ELSE i]
Traces == {Trace(n, m) : n \in 0..MaxLen, m \in 0..MaxLen}

Init ==
    /\ ecg_data \in Traces
    /\ pc = "idle"
    /\ export_to = "pdf"
    /\ record_frequency = 1
    /\ signals_num = 0
    /\ no_of_strips = 0
    /\ extra_strips_needed = 0
    /\ record_list = <<>>
    /\ seq = 0
    /\ plotted = <<>>
    /\ file_name = NoFile
    /\ files = {}
    /\ written = {}
    /\ result = NoResult("")
    /\ calls = <<>>

\* Lines 140-143: export_to is not supported; the call returns None.
UnsupportedExport(e) ==
    /\ pc \in {"idle", "returned"}
    /\ Len(ecg_data) <= MaxRecord
    /\ e \notin SupportedExports
    /\ pc' = "returned"
    /\ export_to' = e
    /\ result' = NoResult("None")
    /\ written' = {}
    /\ record_frequency' = 1
    /\ signals_num' = 0
    /\ no_of_strips' = 0
    /\ extra_strips_needed' = 0
    /\ record_list' = <<>>
    /\ seq' = 0
    /\ plotted' = <<>>
    /\ file_name' = NoFile
    /\ UNCHANGED <<ecg_data, files, calls>>

\* Lines 140-193: a call with a list; record is the caller's list itself.
Partition(e, f) ==
    /\ pc \in {"idle", "returned"}
    /\ Len(ecg_data) <= MaxRecord
    /\ e \in SupportedExports
    /\ LET record == NoneSeq(legend_records) \o ecg_data
           n == Len(record)
           no == NoOfStrips(n, f)
           extra == ExtraStripsNeeded(no)
           padded == record \o NoneSeq(extra * one_strip_length(f))
           pages == partition(padded, (no + extra) \div strips_per_page)
       IN  /\ ecg_data' = padded
           /\ signals_num' = n
           /\ extra_strips_needed' = extra
           /\ record_list' = pages
           /\ no_of_strips' = IF no < strips_per_page THEN no + extra ELSE no
           /\ calls' = Append(calls, [arg |-> ecg_data, record_frequency |-> f,
                                      record_list |-> pages])
    /\ export_to' = e
    /\ record_frequency' = f
    /\ seq' = 0
    /\ plotted' = <<>>
    /\ file_name' = NoFile
    /\ written' = {}
    /\ result' = NoResult("")
    /\ pc' = "plot"
    /\ UNCHANGED files

\* Lines 195-296: one page is plotted, saved and merged with the grid.
PlotPage ==
    /\ pc = "plot"
    /\ seq < Len(record_list)
    /\ plotted' = Append(plotted, PlotPageStrips(record_list[seq + 1], record_frequency))
    /\ file_name' = PageSvg(seq + 1)
    /\ files' = files \cup {PageSvg(seq + 1)}
    /\ written' = written \cup {PageSvg(seq + 1)}
    /\ seq' = seq + 1
    /\ pc' = IF seq + 1 = Len(record_list) THEN "compose" ELSE "plot"
    /\ UNCHANGED <<ecg_data, export_to, record_frequency, signals_num,
                   no_of_strips, extra_strips_needed, record_list, result, calls>>

\* Lines 248-252: ax.plot raises ValueError on strip num of the page; the
\* call returns None.
PlotValueError(num) ==
    /\ pc = "plot"
    /\ seq < Len(record_list)
    /\ LET strips == PlotPageStrips(record_list[seq + 1], record_frequency)
       IN  /\ num \in 1..Len(strips)
           /\ plotted' = Append(plotted, SubSeq(strips, 1, num))
    /\ result' = NoResult("None")
    /\ pc' = "returned"
    /\ UNCHANGED <<ecg_data, export_to, record_frequency, signals_num,
                   no_of_strips, extra_strips_needed, record_list, seq,
                   file_name, files, written, calls>>

\* Lines 298-354: the template and the phantomjs script are written,
\* phantomjs runs, the temporary files are removed.  phantomjs writes the
\* output file ("written"), fails without one ("failed"), or cannot be
\* started ("OSError", which leaves the call at line 345).
Compose(outcome) ==
    /\ pc = "compose"
    /\ LET before == files \cup {GraphPageSvg, TempJs}
           out == IF outcome = "written" THEN {OutputFile(export_to)} ELSE {}
       IN  IF outcome = "OSError"
           THEN /\ files' = before
                /\ written' = written \cup {GraphPageSvg, TempJs}
                /\ result' = NoResult("OSError")
           ELSE /\ files' = (before \cup out) \ {file_name, GraphPageSvg, TempJs}
                /\ written' = written \cup {GraphPageSvg, TempJs} \cup out
                /\ result' = meta_data
    /\ pc' = "returned"
    /\ UNCHANGED <<ecg_data, locals, calls>>

Next ==
    \/ \E e \in Exports : UnsupportedExport(e)
    \/ \E e \in Exports, f \in Frequencies : Partition(e, f)
    \/ PlotPage
    \/ \E num \in 1..strips_per_page : PlotValueError(num)
    \/ \E outcome \in {"written", "failed", "OSError"} : Compose(outcome)

Spec == Init /\ [][Next]_vars

----------------------------------------------------------------------------
\* What the claims speak of.

\* The list as the caller passed it to the call now running or last run.
arg == calls[Len(calls)].arg

\* The call now running or last run got past the partition.
Partitioned == record_list # <<>>

\* Every page of the call has been split into strips.
AllPagesPlotted == Partitioned /\ seq = Len(record_list)

\* The concatenation of a sequence of sequences.
RECURSIVE Flatten(_)
Flatten(ss) == IF ss = <<>> THEN <<>> ELSE Head(ss) \o Flatten(Tail(ss))

\* The chunks of the pages plotted so far, in page order then strip order.
StripsInOrder ==
    Flatten(Flatten([p \in 1..Len(plotted) |->
                        [s \in 1..Len(plotted[p]) |-> plotted[p][s].plot]]))

\* ceil(n / d) as the least r with n <= r * d; pad_strips from it.
RawStripCount(n, d) == CHOOSE r \in 0..n : (r - 1) * d < n /\ n <= r * d
PadStrips(raw) == (4 - (raw % 4)) % 4

\* Two calls with the same record_frequency partition alike.
C1_SameStructure ==
    \A i, j \in 1..Len(calls) :
        calls[i].record_frequency = calls[j].record_frequency
            => calls[i].record_list = calls[j].record_list
\* The caller's list is as it was before the first call.
C1_TraceUnchanged == calls # <<>> => ecg_data = calls[1].arg
\* C1: two runs on the same caller-held list with the same record_frequency
\* give the same Page/Strip structure, and a run does not change the
\* caller's list.
C1_Idempotent == C1_SameStructure /\ C1_TraceUnchanged

\* C2: every page split by chunks() has exactly strips_per_page strips, each
\* of exactly strip_len samples, and strip k overall covers the indices
\* [k*strip_len, (k+1)*strip_len) of the padded trace.
C2_FullAlignedStrips ==
    \A p \in 1..Len(plotted) :
        LET strip_len == 8 * record_frequency
        IN  /\ (p < Len(plotted) \/ pc # "returned" \/ result.returned # "None")
                => Len(plotted[p]) = 4
            /\ \A s \in 1..Len(plotted[p]) :
                  LET k == (p - 1) * 4 + (s - 1)
                  IN  /\ Len(plotted[p][s].plot) = strip_len
                      /\ (k + 1) * strip_len <= Len(ecg_data)
                      /\ plotted[p][s].plot
                            = SubSeq(ecg_data, k * strip_len + 1, (k + 1) * strip_len)

\* C3: the strips of all pages, concatenated in page order then strip order,
\* are the padded trace: 125 missing markers, the samples passed in,
\* pad_strips * strip_len missing markers.
C3_ConcatIsPaddedTrace ==
    AllPagesPlotted =>
        LET strip_len == 8 * record_frequency
            raw == RawStripCount(125 + Len(arg), strip_len)
        IN  StripsInOrder
              = NoneSeq(125) \o arg \o NoneSeq(PadStrips(raw) * strip_len)
\* C3 witness: a trace of two samples or more, padded, on two pages or more,
\* every page split.
C3_Witness ==
    /\ pc = "compose"
    /\ Len(record_list) >= 2
    /\ extra_strips_needed > 0
    /\ Len(arg) >= 2

\* C4: only the first strip of the first page has its first 125 samples
\* blanked; in every other strip each numeric sample reaches the renderer
\* unchanged and only trailing missing markers are added.
C4_OnlyFirstStripBlanked ==
    \A p \in 1..Len(plotted) : \A s \in 1..Len(plotted[p]) :
        LET plot == plotted[p][s].plot
            data == plotted[p][s].data
        IN  IF p = 1 /\ s = 1
            THEN /\ Len(data) = Len(plot)
                 /\ \A i \in 1..Len(plot) :
                       data[i] = IF i <= 125 THEN None ELSE plot[i]
            ELSE /\ Len(data) >= Len(plot)
                 /\ \A i \in 1..Len(data) :
                       IF i <= Len(plot)
                       THEN plot[i] # None => data[i] = plot[i]
                       ELSE data[i] = None

\* C5: the number of appended all-missing strips is
\* (strips_per_page - raw_strip_count mod strips_per_page) mod strips_per_page
\* with raw_strip_count = ceil(N / strip_len), N counted after the prepend;
\* the total is a multiple of strips_per_page, and nothing is appended when
\* N is a multiple of strip_len * strips_per_page.
C5_PadStrips ==
    Partitioned =>
        LET N == 125 + Len(arg)
            strip_len == 8 * record_frequency
            raw == RawStripCount(N, strip_len)
        IN  /\ signals_num = N
            /\ extra_strips_needed = PadStrips(raw)
            /\ Len(ecg_data) = N + PadStrips(raw) * strip_len
            /\ (raw + extra_strips_needed) % 4 = 0
            /\ Len(record_list) * 4 = raw + extra_strips_needed
            /\ (N % (strip_len * 4) = 0 => extra_strips_needed = 0)
\* C5 witness: a partition of five pages, three of the strips appended.
C5_Witness ==
    /\ Partitioned
    /\ extra_strips_needed = 3
    /\ Len(record_list) = 5

\* C6: the metadata of a successful run reports signals_num, also shown as
\* 'No. of signals', equal to the number of samples the caller supplied.
C6_SignalCountIsOriginal ==
    result.returned = "meta_data" =>
        /\ result.signals_num = Len(arg)
        /\ result.no_of_signals = Len(arg)

C8_NoPartialFiles ==
    (pc = "returned" /\ Partitioned /\ result.returned = "None")
        => written \cap files = {}

\* C9: a call whose export_to is not 'pdf', 'jpg' or 'png' returns None at
\* once: no file is written, nothing else is run, and the caller's list is
\* left as it was.
C9_UnsupportedExport ==
    [][(pc \in {"idle", "returned"} /\ export_to' \notin {"pdf", "jpg", "png"})
          => /\ pc' = "returned"
             /\ result'.returned = "None"
             /\ files' = files
             /\ written' = {}
             /\ record_list' = <<>>
             /\ calls' = calls
             /\ ecg_data' = ecg_data]_vars
\* C9 witness: a call with 'svg' has returned None, after an earlier run
\* that left files and a longer list.
C9_Witness ==
    /\ pc = "returned"
    /\ export_to = "svg"
    /\ result.returned = "None"
    /\ files # {}
    /\ Len(ecg_data) > 125

\* C10: after a successful run every intermediate file the run wrote (the
\* SVG of each page, graph_page.svg, temp2.js) is gone; of the files the run
\* wrote only the composed output file is left.
C10_IntermediateFilesRemoved ==
    result.returned = "meta_data"
        => (written \cap files) \subseteq {OutputFile(export_to)}

====
